---- MODULE Spec2Model ----
(***************************************************************************)
(* Model of ultralytics/yolo/v8/pose/train.py: PoseTrainer (constructor,   *)
(* get_validator, criterion), PoseLoss (constructor, __call__) and the     *)
(* module-level train() entry point.                                       *)
(*                                                                         *)
(* Python None is the empty sequence <<>> and a present value x is <<x>>   *)
(* where a variable holds either an object or None; configuration fields   *)
(* that are strings hold the string "None".  A dict is a function from its *)
(* keys.  Tensor scalars are exact rationals <<numerator, denominator>>.   *)
(* The results of the tensor kernels PoseLoss.__call__ invokes (bce,       *)
(* assigner, bbox_loss, keypoint_loss, bce_pose) are inputs of the call.   *)
(***************************************************************************)
EXTENDS Integers, Sequences, FiniteSets, TLC

VARIABLES
    cfgs,          \* the configuration objects: "DEFAULT_CFG" (shared) and "user_cfg"
    init_arg,      \* the overrides argument of the latest PoseTrainer.__init__ call
    parent_call,   \* what that call handed to DetectionTrainer.__init__
    run,           \* the latest training run started by train()
    nruns,         \* number of train() calls made
    model,         \* self.model of the trainer
    loss_names,    \* self.loss_names of the trainer
    compute_loss,  \* self.compute_loss: <<>> while the attribute is absent
    constructed,   \* the models PoseLoss was constructed from, in order
    ncalls,        \* number of criterion calls made
    call_args,     \* the (preds, batch) of the criterion call that last returned
    ret,           \* the value that call returned: <<>> once the caller consumed it
    pc             \* "idle", or "returned" while a returned loss awaits its caller

vars == <<cfgs, init_arg, parent_call, run, nruns, model, loss_names, compute_loss,
          constructed, ncalls, call_args, ret, pc>>

startVars == <<cfgs, init_arg, parent_call, run, nruns>>
lossVars == <<model, loss_names, compute_loss, constructed, ncalls, call_args, ret, pc>>

-----------------------------------------------------------------------------
(* Bounds *)

MaxRuns == 2
MaxBatch == 2
MaxCalls == 2

-----------------------------------------------------------------------------
(* Exact rational arithmetic for tensor scalars *)

RECURSIVE GCD(_, _)
GCD(a, b) == IF b = 0 THEN a ELSE GCD(b, a % b)

Abs(x) == IF x < 0 THEN -x ELSE x

RNorm(n, d) ==
    LET g == GCD(Abs(n), Abs(d))
    IN  IF d < 0 THEN <<(-n) \div g, (-d) \div g>> ELSE <<n \div g, d \div g>>

RInt(n) == <<n, 1>>
RAdd(x, y) == RNorm(x[1] * y[2] + y[1] * x[2], x[2] * y[2])
RMul(x, y) == RNorm(x[1] * y[1], x[2] * y[2])
RDiv(x, y) == RNorm(x[1] * y[2], x[2] * y[1])
RZero == RInt(0)

Max(a, b) == IF a >= b THEN a ELSE b

-----------------------------------------------------------------------------
(* Configuration objects and overrides dicts *)

None == "None"

CfgNames == {"DEFAULT_CFG", "user_cfg"}

\* values a configuration object can hold before train() is called
CfgValues ==
    [task : {"detect"}, model : {None, "yolov8s-pose.yaml"}, data : {None},
     device : {None, "0"}, batch : {1, 16}]

OvKeys == {"task", "model", "data"}
OvVals == [task |-> {"pose", "detect"}, model |-> {"a.yaml", "b.pt"}, data |-> {"kpt.yaml"}]

Dicts == UNION {{d \in [K -> {"pose", "detect", "a.yaml", "b.pt", "kpt.yaml"}] :
                    \A k \in K : d[k] \in OvVals[k]} : K \in SUBSET OvKeys}

EmptyDict == [k \in {} |-> None]

\* d with d[k] = v assigned
DictSet(d, k, v) == [x \in DOMAIN d \cup {k} |-> IF x = k THEN v ELSE d[x]]

\* the overrides argument: None or a dict
OverridesArgs == {<<>>} \cup {<<d>> : d \in Dicts}

\* get_cfg(cfg, overrides): the fields of cfg, each replaced by the overrides' value
get_cfg(cfg, overrides) ==
    [k \in DOMAIN cfg \cup DOMAIN overrides |->
        IF k \in DOMAIN overrides THEN overrides[k] ELSE cfg[k]]

\* DetectionTrainer.__init__(cfg, overrides): self.args = get_cfg(cfg, overrides)
DetectionTrainer__init__(cfg, overrides) ==
    [cfg |-> cfg, overrides |-> overrides, args |-> get_cfg(cfgs[cfg], overrides)]

\* a variant that sets 'task' only when the caller left it out
PoseTrainer__init__SetDefault(cfg, overrides) ==
    LET ov1 == IF overrides = <<>> THEN EmptyDict ELSE overrides[1]
        ov2 == IF "task" \in DOMAIN ov1 THEN ov1 ELSE DictSet(ov1, "task", "pose")
    IN  DetectionTrainer__init__(cfg, ov2)

\* PoseTrainer.__init__(cfg, overrides)
PoseTrainer__init__(cfg, overrides) ==
    LET ov1 == IF overrides = <<>> THEN EmptyDict ELSE overrides[1]
        ov2 == DictSet(ov1, "task", "pose")
    IN  DetectionTrainer__init__(cfg, ov2)

\* YOLO(model).train(**args): the trainer of the model's task, built from the
\* default configuration with the keyword arguments as overrides
YOLO_train(args) ==
    DetectionTrainer__init__("DEFAULT_CFG", DictSet(args, "task", "pose"))

\* a caller constructs a PoseTrainer directly
PoseTrainerInit ==
    /\ \E c \in CfgNames, ov \in OverridesArgs :
          /\ init_arg' = ov
          /\ parent_call' = <<PoseTrainer__init__(c, ov)>>
    /\ UNCHANGED <<cfgs, run, nruns>>
    /\ UNCHANGED lossVars

\* train(cfg, use_python)
train(cfg, use_python) ==
    /\ nruns < MaxRuns
    /\ LET model_ == IF cfgs[cfg].model # None THEN cfgs[cfg].model ELSE "yolov8n-pose.yaml"
           data == IF cfgs[cfg].data # None THEN cfgs[cfg].data ELSE "coco128-kpt.yaml"
           device == IF cfgs[cfg].device # None THEN cfgs[cfg].device ELSE ""
           args == [model |-> model_, data |-> data, device |-> device]
       IN  /\ cfgs' = [cfgs EXCEPT ![cfg].batch = 1]
           /\ IF use_python
                 THEN /\ run' = <<[cfg |-> cfg, use_python |-> TRUE,
                                   trainer |-> YOLO_train(args)']>>
                      /\ UNCHANGED <<init_arg, parent_call>>
                 ELSE /\ init_arg' = <<args>>
                      /\ parent_call' = <<PoseTrainer__init__("DEFAULT_CFG", <<args>>)'>>
                      /\ run' = <<[cfg |-> cfg, use_python |-> FALSE,
                                   trainer |-> parent_call'[1]]>>
    /\ nruns' = nruns + 1
    /\ UNCHANGED lossVars

Train == \E cfg \in CfgNames, use_python \in BOOLEAN : train(cfg, use_python)

-----------------------------------------------------------------------------
(* Models, PoseLoss and the trainer's loss path *)

PoseModelIds == {"m1", "m2"}

\* the attributes PoseLoss reads from a de-paralleled model: model.model[-1].nkpt
\* and model.args (the hyperparameters with the box, cls and dfl gains)
ModelAttrs ==
    [m1 |-> [nkpt |-> 17, hyp |-> [box |-> <<15, 2>>, cls |-> <<1, 2>>, dfl |-> <<3, 2>>]],
     m2 |-> [nkpt |-> 5, hyp |-> [box |-> <<5, 1>>, cls |-> <<1, 1>>, dfl |-> <<2, 1>>]]]

\* self.model: a PoseModel, bare or wrapped for data-parallel training
TrainerModels == [parallel : BOOLEAN, module : PoseModelIds]

\* de_parallel(model): the wrapped module of a parallel model, else the model
de_parallel(m) == m.module

\* PoseLoss.__init__(model)
PoseLoss__init__(m) ==
    [model |-> m, nkpt |-> ModelAttrs[m].nkpt, hyp |-> ModelAttrs[m].hyp]

\* values the kernels' reductions take in the model: LossVals for the bce sum, the
\* target score sum and the first output of bbox_loss, ImageVals for its second
\* output and for the per-image keypoint_loss and bce_pose
LossVals == {0, 1, 2}
ImageVals == {0, 1}

\* One (preds, batch) as PoseLoss.__call__ sees it through the kernels it calls:
\*   bs       pred_scores.shape[0]
\*   bce      self.bce(pred_scores, target_scores).sum()
\*   tss      target_scores.sum()
\*   fg[i]    fg_mask[i].sum() is nonzero
\*   box, dfl the two outputs of self.bbox_loss(...)
\*   kpt[i]   self.keypoint_loss(...) for image i
\*   kobj[i]  self.bce_pose(...) for image i
\* A kernel that is not called has no output: its entry is 0.
CallInputs ==
    UNION {{in \in [bs : {b}, bce : LossVals, tss : LossVals, fg : [1..b -> BOOLEAN],
                    box : LossVals, dfl : ImageVals,
                    kpt : [1..b -> ImageVals], kobj : [1..b -> ImageVals]] :
              /\ \A i \in 1..b : ~in.fg[i] => (in.kpt[i] = 0 /\ in.kobj[i] = 0)
              /\ (\A i \in 1..b : ~in.fg[i]) => (in.box = 0 /\ in.dfl = 0)}
           : b \in 1..MaxBatch}

Sum5(loss) == RAdd(RAdd(RAdd(RAdd(loss[0], loss[1]), loss[2]), loss[3]), loss[4])

\* for i in range(batch_size): if fg_mask[i].sum(): loss[1] += ...; loss[2] += ...
RECURSIVE KptLoop(_, _, _)
KptLoop(loss, i, in) ==
    IF i > in.bs THEN loss
    ELSE IF in.fg[i]
         THEN KptLoop([loss EXCEPT ![1] = RAdd(@, RInt(in.kpt[i])),
                                   ![2] = RAdd(@, RInt(in.kobj[i]))], i + 1, in)
         ELSE KptLoop(loss, i + 1, in)

\* the loss vector at line 144, after the gains
LossVector(self, in) ==
    LET batch_size == in.bs
        loss_0 == [k \in 0..4 |-> RZero]
        target_scores_sum == Max(in.tss, 1)
        loss_1 == [loss_0 EXCEPT ![3] = RDiv(RInt(in.bce), RInt(target_scores_sum))]
        loss_2 == IF \E i \in 1..batch_size : in.fg[i]
                  THEN KptLoop([loss_1 EXCEPT ![0] = RInt(in.box), ![4] = RInt(in.dfl)],
                               1, in)
                  ELSE loss_1
    IN  [loss_2 EXCEPT ![0] = RMul(@, self.hyp.box),
                       ![1] = RMul(@, RDiv(self.hyp.box, RInt(batch_size))),
                       ![2] = RMul(@, RDiv(self.hyp.box, RInt(batch_size))),
                       ![3] = RMul(@, self.hyp.cls),
                       ![4] = RMul(@, self.hyp.dfl)]

\* a variant that returns the plain sum as the total
PoseLoss__call__PlainSum(self, in) ==
    LET loss == LossVector(self, in)
    IN  [total |-> Sum5(loss), items |-> loss]

\* PoseLoss.__call__(preds, batch): (loss.sum() * batch_size, loss.detach())
PoseLoss__call__(self, in) ==
    LET loss == LossVector(self, in)
    IN  [total |-> RMul(Sum5(loss), RInt(in.bs)), items |-> loss]

\* the names in the order of the detection trainer, with the pose names appended
LossNamesDetectOrder == <<"box_loss", "cls_loss", "dfl_loss", "pose_loss", "kobj_loss">>

\* the tuple PoseTrainer.get_validator assigns to self.loss_names
PoseLossNames == <<"box_loss", "pose_loss", "kobj_loss", "cls_loss", "dfl_loss">>

\* a variant that builds a new PoseLoss on every call
criterionAlwaysNew(self_compute_loss, self_model, in) ==
    LET built == <<PoseLoss__init__(de_parallel(self_model))>>
    IN  [compute_loss |-> built, built |-> TRUE, ret |-> PoseLoss__call__(built[1], in)]

\* PoseTrainer.criterion(preds, batch): the attribute after the call, whether the
\* call constructed a PoseLoss, and the value returned
criterion(self_compute_loss, self_model, in) ==
    LET built == self_compute_loss = <<>>
        cl == IF built THEN <<PoseLoss__init__(de_parallel(self_model))>>
              ELSE self_compute_loss
    IN  [compute_loss |-> cl, built |-> built, ret |-> PoseLoss__call__(cl[1], in)]

\* PoseTrainer.get_validator()
GetValidator ==
    /\ pc = "idle"
    /\ loss_names' = PoseLossNames
    /\ UNCHANGED <<model, compute_loss, constructed, ncalls, call_args, ret, pc>>
    /\ UNCHANGED startVars

\* the training framework replaces self.model (wraps or unwraps it, swaps weights)
SetModel ==
    /\ pc = "idle"
    /\ \E m \in TrainerModels : m # model /\ model' = m
    /\ UNCHANGED <<loss_names, compute_loss, constructed, ncalls, call_args, ret, pc>>
    /\ UNCHANGED startVars

\* the training loop calls self.criterion(preds, batch)
Criterion ==
    /\ pc = "idle"
    /\ ncalls < MaxCalls
    /\ \E in \in CallInputs :
          LET r == criterion(compute_loss, model, in)
          IN  /\ compute_loss' = r.compute_loss
              /\ constructed' = IF r.built
                                THEN Append(constructed, [call |-> ncalls + 1, model |-> model])
                                ELSE constructed
              /\ call_args' = <<in>>
              /\ ret' = <<r.ret>>
    /\ ncalls' = ncalls + 1
    /\ pc' = "returned"
    /\ UNCHANGED <<model, loss_names>>
    /\ UNCHANGED startVars

\* the training loop takes the returned (loss, loss_items) and goes on
ReturnToCaller ==
    /\ pc = "returned"
    /\ pc' = "idle"
    /\ ret' = <<>>
    /\ call_args' = <<>>
    /\ UNCHANGED <<model, loss_names, compute_loss, constructed, ncalls>>
    /\ UNCHANGED startVars

-----------------------------------------------------------------------------
(* Specifications *)

LossIdle ==
    /\ loss_names = <<>>
    /\ compute_loss = <<>>
    /\ constructed = <<>>
    /\ ncalls = 0
    /\ call_args = <<>>
    /\ ret = <<>>
    /\ pc = "idle"

Init ==
    /\ cfgs \in [CfgNames -> CfgValues]
    /\ init_arg = <<>>
    /\ parent_call = <<>>
    /\ run = <<>>
    /\ nruns = 0
    /\ model = [parallel |-> FALSE, module |-> "m1"]
    /\ LossIdle

Next == PoseTrainerInit \/ Train

\* construction and start of trainers
Spec == Init /\ [][Next]_vars

\* a constructed trainer: the configuration objects are left alone
InitLoss ==
    /\ cfgs = [c \in CfgNames |->
                 [task |-> "detect", model |-> None, data |-> None, device |-> None,
                  batch |-> 16]]
    /\ init_arg = <<>>
    /\ parent_call = <<>>
    /\ run = <<>>
    /\ nruns = 0
    /\ model \in TrainerModels
    /\ LossIdle

NextLoss == GetValidator \/ SetModel \/ Criterion \/ ReturnToCaller

\* the loss path of a constructed trainer
SpecLoss == InitLoss /\ [][NextLoss]_vars

-----------------------------------------------------------------------------
(* Properties *)

\* the dict the caller of the latest PoseTrainer.__init__ supplied ({} for None)
Supplied == IF init_arg = <<>> THEN EmptyDict ELSE init_arg[1]

\* C1: whatever overrides PoseTrainer.__init__ is given (None, an empty dict, a
\* dict without 'task', a dict with another 'task'), the overrides it hands to
\* the parent constructor have 'task' = 'pose' and carry every other key the
\* caller supplied with its value unchanged.
C1_TaskForcedOthersKept ==
    parent_call # <<>> =>
        LET ov == parent_call[1].overrides
        IN  /\ "task" \in DOMAIN ov
            /\ ov["task"] = "pose"
            /\ \A k \in DOMAIN Supplied \ {"task"} : k \in DOMAIN ov /\ ov[k] = Supplied[k]

\* a constructor call whose caller asked for another task and supplied another key
C1_Witness ==
    /\ parent_call # <<>>
    /\ init_arg # <<>>
    /\ DOMAIN Supplied = {"task", "model"}
    /\ Supplied["task"] = "detect"
    /\ parent_call[1].overrides["model"] = "b.pt"

\* C5: every training run started by train(cfg, use_python), for any cfg object
\* and both values of use_python, runs with batch size 1.
C5_RunBatchIsOne ==
    run # <<>> => run[1].trainer.args["batch"] = 1

\* the sum of the per-image values of the foreground images
RECURSIVE SumFg(_, _, _)
SumFg(vals, fg, i) ==
    IF i = 0 THEN 0
    ELSE (IF fg[i] THEN vals[i] ELSE 0) + SumFg(vals, fg, i - 1)

\* the gain-weighted loss component a name stands for, from the kernels' outputs
Component(name, self, in) ==
    LET anyfg == \E i \in 1..in.bs : in.fg[i]
    IN  CASE name = "box_loss" ->
               RMul(self.hyp.box, RInt(IF anyfg THEN in.box ELSE 0))
          [] name = "pose_loss" ->
               RDiv(RMul(self.hyp.box, RInt(SumFg(in.kpt, in.fg, in.bs))), RInt(in.bs))
          [] name = "kobj_loss" ->
               RDiv(RMul(self.hyp.box, RInt(SumFg(in.kobj, in.fg, in.bs))), RInt(in.bs))
          [] name = "cls_loss" ->
               RDiv(RMul(self.hyp.cls, RInt(in.bce)), RInt(Max(in.tss, 1)))
          [] name = "dfl_loss" ->
               RMul(self.hyp.dfl, RInt(IF anyfg THEN in.dfl ELSE 0))

\* C2: the returned loss vector holds box, cls, dfl, keypoint location, keypoint
\* visibility at indices 0, 1, 2, 3, 4.
C2_VectorOrderBoxClsDfl ==
    ret # <<>> =>
        LET v == ret[1].items
            self == compute_loss[1]
            in == call_args[1]
        IN  /\ v[0] = Component("box_loss", self, in)
            /\ v[1] = Component("cls_loss", self, in)
            /\ v[2] = Component("dfl_loss", self, in)
            /\ v[3] = Component("pose_loss", self, in)
            /\ v[4] = Component("kobj_loss", self, in)

C4_TotalIsBatchTimesSum ==
    ret # <<>> =>
        LET v == ret[1].items
            self == compute_loss[1]
            in == call_args[1]
            names == {"box_loss", "pose_loss", "kobj_loss", "cls_loss", "dfl_loss"}
        IN  /\ DOMAIN v = 0..4
            /\ \A n \in names : \E k \in 0..4 : v[k] = Component(n, self, in)
            /\ \A k \in 0..4 : \E n \in names : v[k] = Component(n, self, in)
            /\ ret[1].total =
                  RMul(RInt(in.bs), RAdd(v[0], RAdd(v[1], RAdd(v[2], RAdd(v[3], v[4])))))
            /\ ret[1].total =
                  RAdd(RMul(RInt(in.bs),
                            RAdd(Component("box_loss", self, in),
                                 RAdd(Component("cls_loss", self, in),
                                      Component("dfl_loss", self, in)))),
                       RMul(self.hyp.box,
                            RInt(SumFg(in.kpt, in.fg, in.bs) + SumFg(in.kobj, in.fg, in.bs))))

\* a call on a batch of two images with every component nonzero
C4_Witness ==
    /\ ret # <<>>
    /\ call_args[1].bs = 2
    /\ \A k \in 0..4 : ret[1].items[k] # RZero
    /\ call_args[1].tss = 2

\* C6: over any sequence of criterion calls PoseLoss is constructed exactly once,
\* during the first call, from de_parallel of the model held then; later calls
\* reuse that object even when self.model was replaced, and each call returns
\* compute_loss(preds, batch) for its own arguments.
C6_ConstructedOnceAndReused ==
    /\ ncalls = 0 => (constructed = <<>> /\ compute_loss = <<>>)
    /\ ncalls > 0 =>
          /\ Len(constructed) = 1
          /\ constructed[1].call = 1
          /\ compute_loss = <<PoseLoss__init__(de_parallel(constructed[1].model))>>
    /\ ret # <<>> => ret[1] = PoseLoss__call__(compute_loss[1], call_args[1])

\* a second call made after self.model was replaced by a model with other gains
C6_Witness ==
    /\ ncalls = 2
    /\ ret # <<>>
    /\ de_parallel(model) # compute_loss[1].model
    /\ ret[1].total # RZero

====
